---- MODULE Spec2Model ----
(***************************************************************************)
(* Model of pywsgi.py: the stream-proxy relay (slug registry, segment      *)
(* base cache, /register, /stream, /segment and /hls handlers) and the     *)
(* per-provider EPG refresh scheduler with its monitor.                    *)
(*                                                                         *)
(* Strings that the code inspects (URLs) are sequences of one-character    *)
(* strings, so that endswith / rsplit / concatenation are computed.        *)
(***************************************************************************)
EXTENDS Integers, Sequences, FiniteSets, TLC

\* ------------------------------------------------------------------------
\* Bounds of the model
\* ------------------------------------------------------------------------
\* number of HTTP requests the proxy part serves in one behaviour
MaxRequests == 4

\* number of unexpected exceptions raised inside the scheduler loops
MaxFaults == 1

\* number of lines of a manifest given to the rewrite
MaxLines == 2

\* ------------------------------------------------------------------------
\* Values
\* ------------------------------------------------------------------------
\* Python None (dict.get of a missing key); no URL is this sequence, URLs
\* are made of one-character tokens
None == <<"None">>

\* concurrent request handling units (gevent greenlets of the WSGI server)
Workers == {"w1", "w2"}

Slugs == {"a", "b"}

\* upstream URLs a client may register
URL_EMPTY == <<>>
URL_MP4 == <<"h", "/", "v", ".", "m", "p", "4">>
URL_HLS_A == <<"h", "/", "a", "/", "i", ".", "m", "3", "u", "8">>
URL_HLS_B == <<"h", "/", "b", "/", "i", ".", "m", "3", "u", "8">>

\* JSON bodies POSTed to /register (slug -> url objects)
Batches ==
    { [s \in {"a"} |-> URL_MP4],
      [s \in {"b"} |-> URL_HLS_A],
      [s \in {"a"} |-> URL_HLS_B],
      [s \in {"a"} |-> URL_EMPTY],
      [s \in {"a", "b"} |-> IF s = "a" THEN URL_HLS_A ELSE URL_MP4] }

EmptyMap == [s \in {} |-> None]

\* <index> path parameter of /segment/<slug>/<index>.ts
Indices == {<<"7">>}

\* what requests.get can do: raise (connection error, timeout) or return a
\* response with a status code
UpstreamOutcomes == {"conn_error", "timeout", "200", "206", "404", "500"}

UpstreamRaises(o) == o \in {"conn_error", "timeout"}

StatusOf(o) ==
    CASE o = "200" -> 200
      [] o = "206" -> 206
      [] o = "404" -> 404
      [] o = "500" -> 500
      [] OTHER -> 0

\* ------------------------------------------------------------------------
\* Pure helpers
\* ------------------------------------------------------------------------
\* str.endswith(suffix)
EndsWith(s, suf) ==
    /\ Len(s) >= Len(suf)
    /\ SubSeq(s, Len(s) - Len(suf) + 1, Len(s)) = suf

M3U8 == <<".", "m", "3", "u", "8">>
TS == <<".", "t", "s">>

\* index of the last "/" of s, 0 when there is none
LastSlash(s) ==
    LET idx == {i \in 1..Len(s) : s[i] = "/"}
    IN IF idx = {} THEN 0 ELSE CHOOSE i \in idx : \A j \in idx : j <= i

\* mutation: the base is stored without its trailing "/"
BaseOfBare(url) ==
    LET i == LastSlash(url)
    IN IF i = 0 THEN url ELSE SubSeq(url, 1, i - 1)

\* url.rsplit('/', 1)[0] + '/'
BaseOf(url) ==
    LET i == LastSlash(url)
    IN (IF i = 0 THEN url ELSE SubSeq(url, 1, i - 1)) \o <<"/">>

\* urljoin(base_url, f"{index}.ts") for a base ending in "/" and a plain
\* relative file name
SegmentUrl(base, index) == base \o index \o TS

\* Python truthiness test `not v` for None / str
Falsy(v) == v = None \/ v = <<>>

\* dict.get(key)
DictGet(m, k) == IF k \in DOMAIN m THEN m[k] ELSE None

\* mutation: the batch replaces the registry
DictUpdateReplacing(m, b) == b

\* mutation: slugs already present keep their URL
DictUpdateKeeping(m, b) ==
    [s \in (DOMAIN m) \cup (DOMAIN b) |-> IF s \in DOMAIN m THEN m[s] ELSE b[s]]

\* dict.update(other)
DictUpdate(m, b) ==
    [s \in (DOMAIN m) \cup (DOMAIN b) |-> IF s \in DOMAIN b THEN b[s] ELSE m[s]]

\* dict[key] = value
DictSet(m, k, v) == [s \in (DOMAIN m) \cup {k} |-> IF s = k THEN v ELSE m[s]]

\* ------------------------------------------------------------------------
\* State
\* ------------------------------------------------------------------------
VARIABLES
    stream_map,        \* slug -> upstream URL
    segment_base_map,  \* slug -> base URL of its HLS segments
    map_lock,          \* "free" or the worker holding map_lock
    pc,                \* position of each request handler
    req,               \* the request each worker is serving
    local,             \* the handler's local `url` / `base_url`
    resp,              \* the response each worker sent last
    upstream,          \* the upstream request of the handler and its outcome
    seen,              \* history: was the key present at the handler's lookup
    lastURL,           \* history: URL of the most recent batch holding a slug
    guarded,           \* history: every map access of the request held the lock
    registered,        \* history: slug -> every URL a batch registered for it
    lastLookup,        \* history: slug -> URL read by the latest /stream lookup
    nreq               \* number of requests started

proxyVars == <<stream_map, segment_base_map, map_lock, pc, req, local, resp,
               upstream, seen, lastURL, guarded, registered, lastLookup,
               nreq>>

VARIABLES
    playlist_content,  \* rewrite_hls_playlist: the lines of its input
    rw_slug,           \* rewrite_hls_playlist: its slug argument
    rewritten          \* rewrite_hls_playlist: the lines of its result

rewriteVars == <<playlist_content, rw_slug, rewritten>>

VARIABLES
    providers,         \* names of the loaded provider clients
    trigger_events,    \* provider -> state of its Event ("set" / "clear")
    jobs,              \* job list of the `schedule` default scheduler
    sched_pc,          \* position of each provider's scheduler thread
    todo,              \* jobs a thread's run_pending() still has to run
    mon_pc,            \* position of each provider's monitor thread
    faults,            \* number of unexpected exceptions raised so far
    owed,              \* history: trigger call not yet followed by a refresh
    refreshed,         \* history: the live unit has completed a refresh
    trig,              \* history: the last trigger_epg_build call
    http,              \* history: the last trigger endpoint response
    epg_result,        \* history: outcome of the last refresh each thread ran
    consec,            \* history: consecutive exceptions in the loop body
    units              \* history: number of live scheduler threads

schedVars == <<providers, trigger_events, jobs, sched_pc, todo, mon_pc, faults, owed,
               refreshed, trig, http, epg_result, consec, units>>

vars == <<proxyVars, schedVars, rewriteVars>>

NoReq == [kind |-> "none", slug |-> "a", index |-> <<>>, body |-> EmptyMap,
          overlap |-> {}]
NoResp == [status |-> 0, location |-> None]
NoUpstream == [url |-> None, outcome |-> "none"]

InFlight(w) == pc[w] \notin {"idle", "done"}

\* the handler is inside a `with map_lock:` block
HoldsLock(w) == map_lock = w

\* mutation: the lock is released by hand and the early return skips it
LockAfterLeaking(w, aborted) == IF aborted THEN w ELSE "free"

\* map_lock when a `with map_lock:` block is left, normally or by the
\* exception of abort()
LockAfter(w, aborted) == "free"

ProxyInit ==
    /\ stream_map = EmptyMap
    /\ segment_base_map = EmptyMap
    /\ map_lock = "free"
    /\ pc = [w \in Workers |-> "idle"]
    /\ req = [w \in Workers |-> NoReq]
    /\ local = [w \in Workers |-> None]
    /\ resp = [w \in Workers |-> NoResp]
    /\ upstream = [w \in Workers |-> NoUpstream]
    /\ seen = [w \in Workers |-> FALSE]
    /\ lastURL = EmptyMap
    /\ registered = EmptyMap
    /\ lastLookup = EmptyMap
    /\ guarded = [w \in Workers |-> TRUE]
    /\ nreq = 0

\* ------------------------------------------------------------------------
\* Request arrival: the WSGI server hands a request to a free handler
\* ------------------------------------------------------------------------
Begin(w, r, first) ==
    /\ ~InFlight(w)
    /\ nreq < MaxRequests
    /\ nreq' = nreq + 1
    /\ req' = [v \in Workers |->
                 IF v = w
                 THEN [r EXCEPT !.overlap = {u \in Workers \ {w} : InFlight(u)}]
                 ELSE [req[v] EXCEPT !.overlap = @ \ {w}]]
    /\ pc' = [pc EXCEPT ![w] = first]
    /\ local' = [local EXCEPT ![w] = None]
    /\ resp' = [resp EXCEPT ![w] = NoResp]
    /\ upstream' = [upstream EXCEPT ![w] = NoUpstream]
    /\ seen' = [seen EXCEPT ![w] = FALSE]
    /\ guarded' = [guarded EXCEPT ![w] = TRUE]
    /\ UNCHANGED <<schedVars, rewriteVars>>
    /\ UNCHANGED <<stream_map, segment_base_map, map_lock, lastURL,
                   registered, lastLookup>>

PostRegister(w) ==
    \E b \in Batches :
        Begin(w, [NoReq EXCEPT !.kind = "register", !.body = b], "reg_acquire")

GetStream(w) ==
    \E s \in Slugs :
        Begin(w, [NoReq EXCEPT !.kind = "stream", !.slug = s], "st_acquire")

GetSegment(w) ==
    \E s \in Slugs, i \in Indices :
        Begin(w, [NoReq EXCEPT !.kind = "segment", !.slug = s, !.index = i],
              "sg_acquire")

GetHls(w) ==
    \E s \in Slugs :
        Begin(w, [NoReq EXCEPT !.kind = "hls", !.slug = s], "hl_acquire")

\* `with map_lock:` entry, in any handler
Acquire(w) ==
    /\ pc[w] \in {"reg_acquire", "st_acquire", "st_acquire2", "sg_acquire",
                  "hl_acquire"}
    /\ map_lock = "free"
    /\ map_lock' = w
    /\ pc' = [pc EXCEPT ![w] =
                 CASE pc[w] = "reg_acquire" -> "reg_locked"
                   [] pc[w] = "st_acquire" -> "st_locked"
                   [] pc[w] = "st_acquire2" -> "st_locked2"
                   [] pc[w] = "sg_acquire" -> "sg_locked"
                   [] pc[w] = "hl_acquire" -> "hl_locked"]
    /\ UNCHANGED guarded
    /\ UNCHANGED <<schedVars, rewriteVars>>
    /\ UNCHANGED <<stream_map, segment_base_map, req, local, resp, upstream,
                   seen, lastURL,
                   registered, lastLookup, nreq>>

\* ------------------------------------------------------------------------
\* POST /register
\* ------------------------------------------------------------------------
register(w) ==
    /\ pc[w] = "reg_locked"
    /\ map_lock = w
    /\ stream_map' = DictUpdate(stream_map, req[w].body)
    /\ lastURL' = [s \in (DOMAIN lastURL) \cup (DOMAIN req[w].body) |->
                     IF s \in DOMAIN req[w].body
                     THEN req[w].body[s] ELSE lastURL[s]]
    /\ registered' = [s \in (DOMAIN registered) \cup (DOMAIN req[w].body) |->
                        (IF s \in DOMAIN registered THEN registered[s] ELSE {})
                        \cup (IF s \in DOMAIN req[w].body
                              THEN {req[w].body[s]} ELSE {})]
    /\ UNCHANGED lastLookup
    /\ map_lock' = "free"
    /\ resp' = [resp EXCEPT ![w] = [status |-> 200, location |-> None]]
    /\ pc' = [pc EXCEPT ![w] = "done"]
    /\ guarded' = [guarded EXCEPT ![w] = @ /\ HoldsLock(w)]
    /\ UNCHANGED <<schedVars, rewriteVars>>
    /\ UNCHANGED <<segment_base_map, req, local, upstream, seen, nreq>>

\* ------------------------------------------------------------------------
\* GET /stream/<slug>
\* ------------------------------------------------------------------------
StreamNotFound(url) == Falsy(url)

stream_lookup(w) ==
    /\ pc[w] = "st_locked"
    /\ map_lock = w
    /\ map_lock' = "free"
    /\ LET url == DictGet(stream_map, req[w].slug)
       IN /\ local' = [local EXCEPT ![w] = url]
          /\ seen' = [seen EXCEPT ![w] = req[w].slug \in DOMAIN stream_map]
          /\ IF StreamNotFound(url)
             THEN /\ resp' = [resp EXCEPT ![w] =
                                 [status |-> 404, location |-> None]]
                  /\ pc' = [pc EXCEPT ![w] = "done"]
             ELSE IF EndsWith(url, M3U8)
             THEN /\ pc' = [pc EXCEPT ![w] = "st_acquire2"]
                  /\ UNCHANGED resp
             ELSE /\ resp' = [resp EXCEPT ![w] =
                                 [status |-> 302, location |-> url]]
                  /\ pc' = [pc EXCEPT ![w] = "done"]
    /\ guarded' = [guarded EXCEPT ![w] = @ /\ HoldsLock(w)]
    /\ UNCHANGED <<schedVars, rewriteVars>>
    /\ lastLookup' = DictSet(lastLookup, req[w].slug,
                           DictGet(stream_map, req[w].slug))
    /\ UNCHANGED <<stream_map, segment_base_map, req, upstream, lastURL,
                   registered, nreq>>

stream_store(w) ==
    /\ pc[w] = "st_locked2"
    /\ map_lock = w
    /\ map_lock' = "free"
    /\ segment_base_map' =
           DictSet(segment_base_map, req[w].slug, BaseOf(local[w]))
    /\ resp' = [resp EXCEPT ![w] = [status |-> 302, location |-> local[w]]]
    /\ pc' = [pc EXCEPT ![w] = "done"]
    /\ guarded' = [guarded EXCEPT ![w] = @ /\ HoldsLock(w)]
    /\ UNCHANGED <<schedVars, rewriteVars>>
    /\ UNCHANGED <<stream_map, req, local, upstream, seen, lastURL,
                   registered, lastLookup, nreq>>

\* ------------------------------------------------------------------------
\* GET /segment/<slug>/<index>.ts
\* ------------------------------------------------------------------------
segment_lookup(w) ==
    /\ pc[w] = "sg_locked"
    /\ map_lock = w
    /\ map_lock' =
           LockAfter(w, Falsy(DictGet(segment_base_map, req[w].slug)))
    /\ LET base_url == DictGet(segment_base_map, req[w].slug)
       IN /\ local' = [local EXCEPT ![w] = base_url]
          /\ seen' = [seen EXCEPT ![w] =
                         req[w].slug \in DOMAIN segment_base_map]
          /\ IF Falsy(base_url)
             THEN /\ resp' = [resp EXCEPT ![w] =
                                 [status |-> 404, location |-> None]]
                  /\ pc' = [pc EXCEPT ![w] = "done"]
             ELSE /\ pc' = [pc EXCEPT ![w] = "sg_fetch"]
                  /\ UNCHANGED resp
    /\ guarded' = [guarded EXCEPT ![w] = @ /\ HoldsLock(w)]
    /\ UNCHANGED <<schedVars, rewriteVars>>
    /\ UNCHANGED <<stream_map, segment_base_map, req, upstream, lastURL,
                   registered, lastLookup, nreq>>

\* status of the segment response for an upstream outcome
SegmentStatus(o) == IF UpstreamRaises(o) THEN 502 ELSE StatusOf(o)

segment_fetch(w) ==
    /\ pc[w] = "sg_fetch"
    /\ \E o \in UpstreamOutcomes :
          /\ upstream' = [upstream EXCEPT ![w] =
                 [url |-> SegmentUrl(local[w], req[w].index), outcome |-> o]]
          /\ resp' = [resp EXCEPT ![w] =
                 [status |-> SegmentStatus(o), location |-> None]]
    /\ pc' = [pc EXCEPT ![w] = "done"]
    /\ UNCHANGED guarded
    /\ UNCHANGED <<schedVars, rewriteVars>>
    /\ UNCHANGED <<stream_map, segment_base_map, map_lock, req, local, seen,
                   lastURL,
                   registered, lastLookup, nreq>>

\* ------------------------------------------------------------------------
\* GET /hls/<slug>.m3u8
\* ------------------------------------------------------------------------
hls_lookup(w) ==
    /\ pc[w] = "hl_locked"
    /\ map_lock = w
    /\ map_lock' = LockAfter(w, Falsy(DictGet(stream_map, req[w].slug)))
    /\ LET url == DictGet(stream_map, req[w].slug)
       IN /\ local' = [local EXCEPT ![w] = url]
          /\ seen' = [seen EXCEPT ![w] = req[w].slug \in DOMAIN stream_map]
          /\ IF Falsy(url)
             THEN /\ resp' = [resp EXCEPT ![w] =
                                 [status |-> 404, location |-> None]]
                  /\ pc' = [pc EXCEPT ![w] = "done"]
             ELSE /\ pc' = [pc EXCEPT ![w] = "hl_fetch"]
                  /\ UNCHANGED resp
    /\ guarded' = [guarded EXCEPT ![w] = @ /\ HoldsLock(w)]
    /\ UNCHANGED <<schedVars, rewriteVars>>
    /\ UNCHANGED <<stream_map, segment_base_map, req, upstream, lastURL,
                   registered, lastLookup, nreq>>

\* response.raise_for_status(): raises for 4xx and 5xx
RaiseForStatus(o) == StatusOf(o) >= 400

\* status of the manifest response for an upstream outcome
HlsStatus(o) == IF UpstreamRaises(o) \/ RaiseForStatus(o) THEN 502 ELSE 200

hls_fetch(w) ==
    /\ pc[w] = "hl_fetch"
    /\ \E o \in UpstreamOutcomes :
          /\ upstream' = [upstream EXCEPT ![w] =
                             [url |-> local[w], outcome |-> o]]
          /\ resp' = [resp EXCEPT ![w] =
                         [status |-> HlsStatus(o), location |-> None]]
    /\ pc' = [pc EXCEPT ![w] = "done"]
    /\ UNCHANGED guarded
    /\ UNCHANGED <<schedVars, rewriteVars>>
    /\ UNCHANGED <<stream_map, segment_base_map, map_lock, req, local, seen,
                   lastURL,
                   registered, lastLookup, nreq>>

\* ------------------------------------------------------------------------
\* GET /proxy
\* ------------------------------------------------------------------------
GetProxy(w) == Begin(w, [NoReq EXCEPT !.kind = "proxy"], "px_list")

\* the rows are built from stream_map.keys(); the handler has no
\* `with map_lock:`
proxy_index(w) ==
    /\ pc[w] = "px_list"
    /\ local' = [local EXCEPT ![w] = DOMAIN stream_map]
    /\ guarded' = [guarded EXCEPT ![w] = @ /\ HoldsLock(w)]
    /\ resp' = [resp EXCEPT ![w] = [status |-> 200, location |-> None]]
    /\ pc' = [pc EXCEPT ![w] = "done"]
    /\ UNCHANGED <<stream_map, segment_base_map, map_lock, req, upstream, seen,
                   lastURL,
                   registered, lastLookup, nreq>>
    /\ UNCHANGED <<schedVars, rewriteVars>>

\* ========================================================================
\* EPG refresh scheduler
\* ========================================================================
\* the configured providers
PROVIDER_LIST == {"plex"}

\* provider names a trigger endpoint can be called with
Names == {"plex", "other", "bogus"}

NoTrig == [seq |-> 0, name |-> "none", had |-> FALSE, returned |-> "None",
           logged |-> FALSE]
NoHttp == [seq |-> 0, endpoint |-> "none", name |-> "none", status |-> 0,
           text |-> "none"]

\* what providers[provider].epg() can do: return nothing, return an error
\* text, raise
EpgResults == {"ok", "error", "raised"}

\* a configuration with more than one provider in the list
SEVERAL_PROVIDERS == {"plex", "other"}

SchedInitFor(list) ==
    /\ providers = list
    /\ trigger_events = [n \in {} |-> "clear"]
    /\ jobs = <<>>
    /\ sched_pc = [p \in providers |-> "none"]
    /\ todo = [p \in providers |-> <<>>]
    /\ mon_pc = [p \in providers |-> "spawn"]
    /\ faults = 0
    /\ owed = [p \in providers |-> FALSE]
    /\ refreshed = [p \in providers |-> FALSE]
    /\ trig = NoTrig
    /\ http = NoHttp
    /\ epg_result = [p \in providers |-> "none"]
    /\ consec = [p \in providers |-> 0]
    /\ units = [p \in providers |-> 0]

SchedInit == SchedInitFor(PROVIDER_LIST)

RewriteIdle ==
    /\ playlist_content = <<>>
    /\ rw_slug = <<>>
    /\ rewritten = <<>>

Init == ProxyInit /\ SchedInit /\ RewriteIdle

\* threading.Thread.is_alive() of a provider's scheduler thread
IsAlive(p) == sched_pc[p] \notin {"none", "dead"}

\* a refresh (providers[q].epg()) is being executed by the thread of p
Refreshing(p, q) ==
    \/ sched_pc[p] \in {"init_refresh", "manual_refresh"} /\ q = p
    \/ sched_pc[p] = "job_refresh" /\ jobs[Head(todo[p])].owner = q

\* ---- trigger_epg_build and the trigger endpoints -------------------------
\* mutation: a missing event is created and set
TriggerSetCreating(te, n) == DictSet(te, n, "set")

\* trigger_events after trigger_epg_build(n)
TriggerSet(te, n) == IF n \in DOMAIN te THEN [te EXCEPT ![n] = "set"] ELSE te

\* the effect of trigger_epg_build(n): the event is set or an error is
\* printed; the function returns None on both paths
trigger_epg_build(n) ==
    /\ trigger_events' = TriggerSet(trigger_events, n)
    /\ trig' = [seq |-> 1 - trig.seq, name |-> n,
                had |-> n \in DOMAIN trigger_events,
                returned |-> "None",
                logged |-> n \notin DOMAIN trigger_events]
    /\ owed' = [p \in providers |-> owed[p] \/ p = n]

build_epg(n) ==
    /\ trigger_epg_build(n)
    /\ http' = [seq |-> 1 - http.seq, endpoint |-> "build_epg", name |-> n,
                status |-> 200, text |-> "Manually Triggering EPG"]
    /\ UNCHANGED <<jobs, sched_pc, todo, mon_pc, faults, refreshed>>
    /\ UNCHANGED <<epg_result, consec, units>>
    /\ UNCHANGED <<providers, proxyVars, rewriteVars>>

\* providers[provider] raises KeyError for a name outside PROVIDER_LIST; the
\* handler has no try, the framework answers 500
rebuild_epg(n) ==
    /\ IF n \in providers
       THEN /\ trigger_epg_build(n)
            /\ http' = [seq |-> 1 - http.seq, endpoint |-> "rebuild_epg",
                        name |-> n, status |-> 200, text |-> "Rebuilding EPG"]
       ELSE /\ http' = [seq |-> 1 - http.seq, endpoint |-> "rebuild_epg",
                        name |-> n, status |-> 500, text |-> "KeyError"]
            /\ UNCHANGED <<trigger_events, trig, owed>>
    /\ UNCHANGED <<jobs, sched_pc, todo, mon_pc, faults, refreshed>>
    /\ UNCHANGED <<epg_result, consec, units>>
    /\ UNCHANGED <<providers, proxyVars, rewriteVars>>

\* ---- scheduler_thread ----------------------------------------------------
\* lines 142-152: create the provider's Event if missing, register the
\* periodic job with the default scheduler
sched_setup(p) ==
    /\ sched_pc[p] = "setup"
    /\ trigger_events' = IF p \in DOMAIN trigger_events
                         THEN trigger_events
                         ELSE DictSet(trigger_events, p, "clear")
    /\ jobs' = Append(jobs, [owner |-> p, due |-> FALSE])
    /\ sched_pc' = [sched_pc EXCEPT ![p] = "init"]
    /\ UNCHANGED <<todo, mon_pc, faults, owed, refreshed, trig, http>>
    /\ UNCHANGED <<epg_result, consec, units>>
    /\ UNCHANGED <<providers, proxyVars, rewriteVars>>

\* line 157: the initial epg_scheduler(provider) starts
init_start(p) ==
    /\ sched_pc[p] = "init"
    /\ sched_pc' = [sched_pc EXCEPT ![p] = "init_refresh"]
    /\ owed' = [owed EXCEPT ![p] = FALSE]
    /\ UNCHANGED <<trigger_events, jobs, todo, mon_pc, faults, refreshed,
                   trig, http>>
    /\ UNCHANGED <<epg_result, consec, units>>
    /\ UNCHANGED <<providers, proxyVars, rewriteVars>>

\* lines 157-158: it returns (epg_scheduler swallows what epg() returns or
\* raises) and the thread enters the main loop
init_end(p) ==
    /\ sched_pc[p] = "init_refresh"
    /\ sched_pc' = [sched_pc EXCEPT ![p] = "loop"]
    /\ refreshed' = [refreshed EXCEPT ![p] = TRUE]
    /\ UNCHANGED <<trigger_events, jobs, todo, mon_pc, faults, owed, trig,
                   http>>
    /\ \E r \in EpgResults : epg_result' = [epg_result EXCEPT ![p] = r]
    /\ UNCHANGED <<consec, units>>
    /\ UNCHANGED <<providers, proxyVars, rewriteVars>>

\* lines 159-162: an exception escapes epg_scheduler; sleep 10 s and retry
init_fault(p) ==
    /\ sched_pc[p] = "init_refresh"
    /\ faults < MaxFaults
    /\ faults' = faults + 1
    /\ sched_pc' = [sched_pc EXCEPT ![p] = "init"]
    /\ UNCHANGED <<trigger_events, jobs, todo, mon_pc, owed, refreshed, trig,
                   http>>
    /\ UNCHANGED <<epg_result, consec, units>>
    /\ UNCHANGED <<providers, proxyVars, rewriteVars>>

\* indices of the jobs whose next run time has passed, in list order
DueJobs == SelectSeq([i \in 1..Len(jobs) |-> i], LAMBDA i : jobs[i].due)

\* line 168: schedule.run_pending() collects the runnable jobs
run_pending(p) ==
    /\ sched_pc[p] = "loop"
    /\ DueJobs # <<>>
    /\ todo' = [todo EXCEPT ![p] = DueJobs]
    /\ sched_pc' = [sched_pc EXCEPT ![p] = "job"]
    /\ UNCHANGED <<trigger_events, jobs, mon_pc, faults, owed, refreshed,
                   trig, http>>
    /\ UNCHANGED <<epg_result, consec, units>>
    /\ UNCHANGED <<providers, proxyVars, rewriteVars>>

\* the job function lambda: epg_scheduler(owner) starts
job_start(p) ==
    /\ sched_pc[p] = "job"
    /\ sched_pc' = [sched_pc EXCEPT ![p] = "job_refresh"]
    /\ owed' = [owed EXCEPT ![jobs[Head(todo[p])].owner] = FALSE]
    /\ UNCHANGED <<trigger_events, jobs, todo, mon_pc, faults, refreshed,
                   trig, http>>
    /\ UNCHANGED <<epg_result, consec, units>>
    /\ UNCHANGED <<providers, proxyVars, rewriteVars>>

\* the job function returns; the job is rescheduled and the next runnable
\* job is taken
job_end(p) ==
    /\ sched_pc[p] = "job_refresh"
    /\ jobs' = [jobs EXCEPT ![Head(todo[p])].due = FALSE]
    /\ todo' = [todo EXCEPT ![p] = Tail(todo[p])]
    /\ sched_pc' = [sched_pc EXCEPT ![p] =
                       IF Tail(todo[p]) = <<>> THEN "check" ELSE "job"]
    /\ UNCHANGED <<trigger_events, mon_pc, faults, owed, refreshed, trig,
                   http>>
    /\ \E r \in EpgResults : epg_result' = [epg_result EXCEPT ![p] = r]
    /\ UNCHANGED <<consec, units>>
    /\ UNCHANGED <<providers, proxyVars, rewriteVars>>

\* lines 171-173 (and 176 when the event is not set): test the event; when
\* set, the manual epg_scheduler(provider) starts
check_event(p) ==
    /\ \/ sched_pc[p] = "check"
       \/ sched_pc[p] = "loop" /\ DueJobs = <<>>
    /\ IF trigger_events[p] = "set"
       THEN /\ sched_pc' = [sched_pc EXCEPT ![p] = "manual_refresh"]
            /\ owed' = [owed EXCEPT ![p] = FALSE]
       ELSE /\ sched_pc' = [sched_pc EXCEPT ![p] = "sleep"]
            /\ UNCHANGED owed
    /\ UNCHANGED <<trigger_events, jobs, todo, mon_pc, faults, refreshed,
                   trig, http>>
    /\ UNCHANGED <<epg_result, consec, units>>
    /\ UNCHANGED <<providers, proxyVars, rewriteVars>>

\* lines 173-174: the manual refresh returns and the event is cleared
manual_end(p) ==
    /\ sched_pc[p] = "manual_refresh"
    /\ trigger_events' = [trigger_events EXCEPT ![p] = "clear"]
    /\ sched_pc' = [sched_pc EXCEPT ![p] = "sleep"]
    /\ UNCHANGED <<jobs, todo, mon_pc, faults, owed, refreshed, trig, http>>
    /\ \E r \in EpgResults : epg_result' = [epg_result EXCEPT ![p] = r]
    /\ UNCHANGED <<consec, units>>
    /\ UNCHANGED <<providers, proxyVars, rewriteVars>>

\* line 176: time.sleep(1) returns
tick(p) ==
    /\ sched_pc[p] = "sleep"
    /\ sched_pc' = [sched_pc EXCEPT ![p] = "loop"]
    /\ UNCHANGED <<trigger_events, jobs, todo, mon_pc, faults, owed,
                   refreshed, trig, http>>
    /\ consec' = [consec EXCEPT ![p] = 0]
    /\ UNCHANGED <<epg_result, units>>
    /\ UNCHANGED <<providers, proxyVars, rewriteVars>>

\* mutation: the loop is left at the third consecutive exception
FaultExitsAtThree(c) == c >= 3

\* lines 178-180: the except clause breaks at every exception; c is the
\* number of consecutive exceptions including this one
FaultExits(c) == c >= 1

\* lines 178-180: an exception in the loop body; the handler breaks out of
\* the loop and the thread function returns
loop_fault(p) ==
    /\ sched_pc[p] = "loop"
    /\ faults < MaxFaults
    /\ faults' = faults + 1
    /\ sched_pc' = [sched_pc EXCEPT ![p] =
                       IF FaultExits(consec[p] + 1) THEN "dead" ELSE "sleep"]
    /\ UNCHANGED <<trigger_events, jobs, todo, mon_pc, owed, refreshed, trig,
                   http>>
    /\ consec' = [consec EXCEPT ![p] = @ + 1]
    /\ units' = [units EXCEPT ![p] = IF FaultExits(consec'[p]) THEN @ - 1 ELSE @]
    /\ UNCHANGED epg_result
    /\ UNCHANGED <<providers, proxyVars, rewriteVars>>

\* the run time of a job is reached (time passes)
CadenceElapse ==
    /\ \E i \in 1..Len(jobs) :
          /\ ~jobs[i].due
          /\ jobs' = [jobs EXCEPT ![i].due = TRUE]
    /\ UNCHANGED <<trigger_events, sched_pc, todo, mon_pc, faults, owed,
                   refreshed, trig, http>>
    /\ UNCHANGED <<epg_result, consec, units>>
    /\ UNCHANGED <<providers, proxyVars, rewriteVars>>

\* ---- monitor_thread ------------------------------------------------------
\* lines 190-191: create and start the scheduler thread
monitor_spawn(p) ==
    /\ mon_pc[p] = "spawn"
    /\ mon_pc' = [mon_pc EXCEPT ![p] = "poll"]
    /\ sched_pc' = [sched_pc EXCEPT ![p] = "setup"]
    /\ UNCHANGED <<trigger_events, jobs, todo, faults, owed, refreshed, trig,
                   http>>
    /\ units' = [units EXCEPT ![p] = @ + 1]
    /\ UNCHANGED <<epg_result, consec>>
    /\ UNCHANGED <<providers, proxyVars, rewriteVars>>

\* mutation: only a thread that never ran counts as stopped
NeedsRestartStale(p) == sched_pc[p] = "none"

\* mutation: the thread is replaced at every poll
NeedsRestartAlways(p) == TRUE

\* line 195: `not thread.is_alive()`
NeedsRestart(p) == ~IsAlive(p)

\* lines 195-200: one poll; a thread that is not alive is replaced
monitor_poll(p) ==
    /\ mon_pc[p] = "poll"
    /\ NeedsRestart(p)
    /\ sched_pc' = [sched_pc EXCEPT ![p] = "setup"]
    /\ refreshed' = [refreshed EXCEPT ![p] = FALSE]
    /\ UNCHANGED <<trigger_events, jobs, todo, mon_pc, faults, owed, trig,
                   http>>
    /\ units' = [units EXCEPT ![p] = @ + 1]
    /\ consec' = [consec EXCEPT ![p] = 0]
    /\ UNCHANGED epg_result
    /\ UNCHANGED <<providers, proxyVars, rewriteVars>>

SchedStep(p) ==
    \/ sched_setup(p)
    \/ init_start(p)
    \/ init_end(p)
    \/ run_pending(p)
    \/ job_start(p)
    \/ job_end(p)
    \/ check_event(p)
    \/ manual_end(p)
    \/ tick(p)

SchedNext ==
    \/ \E n \in Names : build_epg(n)
    \/ \E n \in Names : rebuild_epg(n)
    \/ \E p \in providers : sched_setup(p)
    \/ \E p \in providers : init_start(p)
    \/ \E p \in providers : init_end(p)
    \/ \E p \in providers : init_fault(p)
    \/ \E p \in providers : run_pending(p)
    \/ \E p \in providers : job_start(p)
    \/ \E p \in providers : job_end(p)
    \/ \E p \in providers : check_event(p)
    \/ \E p \in providers : manual_end(p)
    \/ \E p \in providers : tick(p)
    \/ \E p \in providers : loop_fault(p)
    \/ CadenceElapse
    \/ \E p \in providers : monitor_spawn(p)
    \/ \E p \in providers : monitor_poll(p)

SchedSpec == Init /\ [][SchedNext]_vars

\* the threads keep running: every scheduler and monitor step that stays
\* enabled is eventually taken; nothing forces a trigger, a fault or the
\* cadence
SchedFairness ==
    \A p \in PROVIDER_LIST :
        /\ WF_vars(SchedStep(p))
        /\ WF_vars(monitor_spawn(p))
        /\ WF_vars(monitor_poll(p))

FairSchedSpec == SchedSpec /\ SchedFairness

\* ---- several providers ----------------------------------------------------
\* the scheduler threads of a list of two providers, sharing the default
\* scheduler of the `schedule` module; no trigger, no exception
SeveralInit == ProxyInit /\ SchedInitFor(SEVERAL_PROVIDERS) /\ RewriteIdle

SeveralNext ==
    \/ \E p \in providers : monitor_spawn(p)
    \/ \E p \in providers : sched_setup(p)
    \/ \E p \in providers : init_start(p)
    \/ \E p \in providers : init_end(p)
    \/ \E p \in providers : run_pending(p)
    \/ \E p \in providers : job_start(p)
    \/ \E p \in providers : job_end(p)
    \/ \E p \in providers : check_event(p)
    \/ \E p \in providers : tick(p)
    \/ CadenceElapse

SeveralSpec == SeveralInit /\ [][SeveralNext]_vars

\* ========================================================================
\* rewrite_hls_playlist
\* ========================================================================
\* lines a manifest can be made of
LINE_EXTM3U == <<"#", "E", "X", "T">>
LINE_EMPTY == <<>>
LINE_BLANK == <<" ">>
LINE_SEGMENT == <<"s", "e", "g", "/", "4", "2", ".", "t", "s">>
LINE_VARIANT == <<"v", "/", "7", "2", "0", "p", ".", "m", "3", "u", "8">>
LINE_DOTTED == <<"s", "/", "4", ".", "2", ".", "t", "s">>
LINE_COMMENT_TS == <<"#", "x", ".", "t", "s">>
LINE_OTHER == <<"k", ".", "m", "p", "4">>

Lines == {LINE_EXTM3U, LINE_EMPTY, LINE_BLANK, LINE_SEGMENT, LINE_VARIANT,
          LINE_DOTTED, LINE_COMMENT_TS, LINE_OTHER}

\* playlist_content.split('\n') of the manifests given to the rewrite
Manifests == UNION {[1..n -> Lines] : n \in 1..MaxLines}

RewriteSlugs == {<<"a", "b", "c">>}

SEGMENT_PREFIX == <<"/", "s", "e", "g", "m", "e", "n", "t", "/">>
STREAM_PREFIX == <<"/", "s", "t", "r", "e", "a", "m", "/">>

\* str.startswith(prefix)
StartsWith(s, pre) == Len(s) >= Len(pre) /\ SubSeq(s, 1, Len(pre)) = pre

\* `not line.strip()`
IsBlank(line) == \A i \in 1..Len(line) : line[i] \in {" ", "\t", "\r"}

\* line.split('/')[-1]
AfterLastSlash(line) == SubSeq(line, LastSlash(line) + 1, Len(line))

\* index of the first "." of s, Len(s) + 1 when there is none
FirstDot(s) ==
    LET idx == {i \in 1..Len(s) : s[i] = "."}
    IN IF idx = {} THEN Len(s) + 1
       ELSE CHOOSE i \in idx : \A j \in idx : i <= j

\* line.split('/')[-1].split('.')[0]
Stem(line) ==
    LET name == AfterLastSlash(line)
    IN SubSeq(name, 1, FirstDot(name) - 1)

\* the body of the loop over the lines
RewriteLine(line, slug) ==
    IF StartsWith(line, <<"#">>) \/ IsBlank(line) THEN line
    ELSE IF EndsWith(line, TS)
         THEN SEGMENT_PREFIX \o slug \o <<"/">> \o Stem(line) \o TS
    ELSE IF EndsWith(line, M3U8) THEN STREAM_PREFIX \o Stem(line)
    ELSE line

\* the lines of rewrite_hls_playlist(playlist_content, slug, base_url)
RewritePlaylist(lines, slug) ==
    [i \in 1..Len(lines) |-> RewriteLine(lines[i], slug)]

RewriteInit ==
    /\ ProxyInit
    /\ SchedInit
    /\ playlist_content \in Manifests
    /\ rw_slug \in RewriteSlugs
    /\ rewritten = <<>>

rewrite_hls_playlist ==
    /\ rewritten = <<>>
    /\ playlist_content # <<>>
    /\ rewritten' = RewritePlaylist(playlist_content, rw_slug)
    /\ UNCHANGED <<playlist_content, rw_slug>>
    /\ UNCHANGED <<proxyVars, schedVars>>

RewriteNext == rewrite_hls_playlist

RewriteSpec == RewriteInit /\ [][RewriteNext]_vars

\* ------------------------------------------------------------------------
\* Specification of the proxy part
\* ------------------------------------------------------------------------
Next ==
    \E w \in Workers :
        \/ PostRegister(w)
        \/ GetStream(w)
        \/ GetSegment(w)
        \/ GetHls(w)
        \/ GetProxy(w)
        \/ Acquire(w)
        \/ register(w)
        \/ stream_lookup(w)
        \/ stream_store(w)
        \/ segment_lookup(w)
        \/ segment_fetch(w)
        \/ hls_lookup(w)
        \/ hls_fetch(w)
        \/ proxy_index(w)

Spec == Init /\ [][Next]_vars

\* ------------------------------------------------------------------------
\* Properties of the proxy part
\* ------------------------------------------------------------------------
Done(w, kind) == pc[w] = "done" /\ req[w].kind = kind

\* C1: after any sequence of batch registrations every slug ever registered
\* is still in the Registry and maps to the URL of the most recent batch
\* that contained it; slugs outside a batch are neither removed nor changed.
C1_RegistryMerge ==
    /\ DOMAIN stream_map = DOMAIN lastURL
    /\ \A s \in DOMAIN lastURL : stream_map[s] = lastURL[s]

\* a slug re-registered by a later batch while another slug stays untouched
C1_Witness ==
    /\ Done("w1", "register") /\ req["w1"].body = [s \in {"a"} |-> URL_MP4]
    /\ Done("w2", "register") /\ req["w2"].body = [s \in {"a"} |-> URL_HLS_B]
    /\ "b" \in DOMAIN stream_map
    /\ stream_map["a"] = URL_HLS_B
    /\ stream_map["b"] = URL_HLS_A

Concurrent(w1, w2) == w1 \in req[w2].overlap \/ w2 \in req[w1].overlap

DisjointBatches(w1, w2) ==
    (DOMAIN req[w1].body) \cap (DOMAIN req[w2].body) = {}

Resolves(w) ==
    \A s \in DOMAIN req[w].body :
        s \in DOMAIN stream_map /\ stream_map[s] = req[w].body[s]

\* C2: two concurrent batch registrations over disjoint slug sets both
\* return success and afterwards every slug of both batches resolves to the
\* URL its batch gave it.
C2_NoLostUpdate ==
    \A w1, w2 \in Workers :
        ( /\ w1 # w2
          /\ Done(w1, "register") /\ Done(w2, "register")
          /\ Concurrent(w1, w2)
          /\ DisjointBatches(w1, w2) )
        => /\ resp[w1].status = 200 /\ resp[w2].status = 200
           /\ Resolves(w1) /\ Resolves(w2)

\* both registrations were in flight together and both have returned
C2_Witness ==
    /\ Done("w1", "register") /\ Done("w2", "register")
    /\ Concurrent("w1", "w2")
    /\ DisjointBatches("w1", "w2")
    /\ "w1" \in req["w2"].overlap
    /\ stream_map["a"] = URL_HLS_B
    /\ stream_map["b"] = URL_HLS_A

\* C3: /stream/{slug} answers 404 exactly when the slug is absent from the
\* Registry, and for every present slug, whatever its URL, it answers 302
\* with the registered URL as the location.
C3_StreamStatus ==
    \A w \in Workers :
        Done(w, "stream") =>
            /\ (resp[w].status = 404) <=> ~seen[w]
            /\ seen[w] => resp[w].status = 302 /\ resp[w].location = local[w]

\* C4: after a successful /hls/{slug}.m3u8 the Segment Base Cache holds the
\* base of the upstream manifest URL for that slug.
C4_HlsPrimesCache ==
    \A w \in Workers :
        (Done(w, "hls") /\ resp[w].status = 200) =>
            /\ req[w].slug \in DOMAIN segment_base_map
            /\ segment_base_map[req[w].slug] = BaseOf(local[w])

\* C5: /segment/{slug}/{index}.ts answers 404 exactly when the Segment Base
\* Cache has no entry for the slug, and then has issued no upstream request.
C5_SegmentNotFoundIffUncached ==
    \A w \in Workers :
        Done(w, "segment") =>
            /\ (resp[w].status = 404) <=> ~seen[w]
            /\ (resp[w].status = 404) => upstream[w].url = None

UpstreamFailed(o) == UpstreamRaises(o) \/ StatusOf(o) >= 300

\* C6: in the manifest handler and in the segment relay every upstream
\* failure (connection error, timeout, non-2xx status) gives a 502.
C6_UpstreamFailureIs502 ==
    \A w \in Workers :
        ( /\ pc[w] = "done"
          /\ req[w].kind \in {"hls", "segment"}
          /\ UpstreamFailed(upstream[w].outcome) )
        => resp[w].status = 502

\* ------------------------------------------------------------------------
\* Properties of the scheduler part
\* ------------------------------------------------------------------------
\* C7: every manual trigger for a configured provider is followed by a
\* refresh of that provider that starts after the trigger, without the help
\* of the periodic cadence, whatever state the scheduler is in.
C7_TriggerCausesRefresh ==
    \A p \in PROVIDER_LIST : owed[p] ~> ~owed[p]

TriggerCalled == trig'.seq # trig.seq

\* C8 as stated: the trigger for a provider without scheduler returns an
\* error outcome to its caller.
C8_TriggerReturnsError ==
    (trig.name # "none" /\ ~trig.had) => trig.returned = "error"

\* C8 as amended: the trigger for a provider without scheduler prints an
\* error and returns what a successful trigger returns; it sets no signal,
\* creates no scheduler state and starts no refresh.
C8_TriggerWithoutSchedulerIsNoOp ==
    [][ (TriggerCalled /\ ~trig'.had) =>
            /\ trig'.logged
            /\ trig'.returned = "None"
            /\ trigger_events' = trigger_events
            /\ sched_pc' = sched_pc
            /\ jobs' = jobs
            /\ todo' = todo
            /\ mon_pc' = mon_pc ]_vars

\* the trigger was called for an unknown provider while plex is scheduled
C8_Witness ==
    /\ trig.name = "bogus"
    /\ ~trig.had
    /\ trig.logged
    /\ "plex" \in DOMAIN trigger_events
    /\ "bogus" \notin DOMAIN trigger_events

\* C9: both trigger endpoints answer with their success text for every
\* provider name.
C9_TriggerEndpointsSucceed ==
    http.endpoint # "none" =>
        /\ http.status = 200
        /\ http.text \in {"Manually Triggering EPG", "Rebuilding EPG"}

RefreshEnds(p) ==
    /\ sched_pc[p] \in {"init_refresh", "job_refresh", "manual_refresh"}
    /\ sched_pc'[p] # sched_pc[p]
    /\ faults' = faults

C13_LoopAfterSuccessfulInit ==
    [][ \A p \in providers :
          (sched_pc[p] = "init_refresh" /\ sched_pc'[p] = "loop")
              => epg_result'[p] = "ok" ]_vars

\* C15: the signal is never cleared while a trigger raised before the
\* clear has not been followed by the start of a refresh.
C15_NoTriggerClearedUnserved ==
    [][ \A p \in providers :
          ( /\ p \in DOMAIN trigger_events
            /\ trigger_events[p] = "set"
            /\ trigger_events'[p] = "clear" )
          => ~owed'[p] ]_vars

\* C18: every provider has at most one live scheduler thread, and a thread
\* is only started when none is alive.
C18_AtMostOneUnit ==
    \A p \in providers :
        /\ units[p] <= 1
        /\ (units[p] = 1) <=> IsAlive(p)

\* the monitor has replaced a stopped thread
C18_Witness ==
    /\ units["plex"] = 1
    /\ faults >= 1
    /\ Len(jobs) >= 2
    /\ sched_pc["plex"] = "init"

JobsOf(p) == {i \in 1..Len(jobs) : jobs[i].owner = p}

\* C19: a provider has one periodic job however often its scheduler thread
\* was restarted, so one cadence elapse gives one refresh.
C19_OnePeriodicJob ==
    \A p \in providers : Cardinality(JobsOf(p)) <= 1

StemBeforeExtension(line, ext) ==
    LET name == AfterLastSlash(line)
    IN SubSeq(name, 1, Len(name) - Len(ext))

\* the line C14 expects for a line of the manifest
ExpectedLine(line, slug) ==
    IF StartsWith(line, <<"#">>) \/ IsBlank(line) THEN line
    ELSE IF EndsWith(line, TS)
         THEN SEGMENT_PREFIX \o slug \o <<"/">>
                  \o StemBeforeExtension(line, TS) \o TS
    ELSE IF EndsWith(line, M3U8)
         THEN STREAM_PREFIX \o StemBeforeExtension(line, M3U8)
    ELSE line

\* C14: the rewrite keeps line count and order; comment and blank lines are
\* unchanged, a .ts line becomes /segment/{slug}/{stem}.ts and a .m3u8 line
\* /stream/{stem}, stem being the part after the last "/" and before the
\* extension; every other line is unchanged.
C14_RewriteLineByLine ==
    rewritten # <<>> =>
        /\ Len(rewritten) = Len(playlist_content)
        /\ \A i \in 1..Len(rewritten) :
              rewritten[i] = ExpectedLine(playlist_content[i], rw_slug)

\* C16: the lock is only held inside a `with map_lock:` block: not while a
\* handler waits for upstream, and not after any exit of a handler.
C16_LockOnlyInsideWith ==
    \A w \in Workers :
        HoldsLock(w) =>
            pc[w] \in {"reg_locked", "st_locked", "st_locked2", "sg_locked",
                       "hl_locked"}

\* one handler has left the locked region through its 404 exit and the
\* other holds the lock while it waits for upstream
C16_Witness ==
    /\ pc["w1"] = "hl_fetch"
    /\ Done("w2", "segment")
    /\ resp["w2"].status = 404
    /\ ~seen["w2"]
    /\ map_lock = "free"

\* C17: every read and every mutation of the Registry and of the Segment
\* Base Cache by a request handler is made while holding the lock.
C17_AccessUnderLock ==
    \A w \in Workers : guarded[w]

\* the URL up to and including its last "/" (its last path component is
\* stripped)
StripLastComponent(url) == SubSeq(url, 1, LastSlash(url))

\* every cache entry ends with "/", belongs to a registered slug and is the
\* base of a URL registered for that slug
CacheEntriesDerived ==
    \A s \in DOMAIN segment_base_map :
        /\ Len(segment_base_map[s]) > 0
        /\ segment_base_map[s][Len(segment_base_map[s])] = "/"
        /\ s \in DOMAIN stream_map
        /\ \E u \in registered[s] : segment_base_map[s] = StripLastComponent(u)

\* a /stream request that read an HLS URL for slug s is storing its base
StoresBase(w, s) ==
    /\ req[w].kind = "stream"
    /\ req[w].slug = s
    /\ pc[w] = "st_locked2"
    /\ EndsWith(local[w], M3U8)

Quiescent == \A w \in Workers : ~InFlight(w)

\* C22: once concurrent /stream requests and registrations for a slug have
\* all completed, the cached base of the slug is the base of the URL read by
\* the /stream request that performed its Registry lookup last (where that
\* URL is a manifest URL): a request that looked up an older URL never
\* overwrites the base written for a newer one.
C22_LastLookupWins ==
    Quiescent =>
        \A s \in DOMAIN lastLookup :
            EndsWith(lastLookup[s], M3U8)
                => DictGet(segment_base_map, s) = BaseOf(lastLookup[s])

====
